---- MODULE Spec2Model ----
(***************************************************************************)
(* Model of the authentication, rate-limiting and ownership subsystem of   *)
(* the todo backend (src/backend/app).                                     *)
(*                                                                         *)
(* Time is counted in ticks; TicksPerSecond ticks make one second, so      *)
(* that sub-second clock readings (time.time() is a float, datetime has    *)
(* microseconds) and the whole-second truncations of the code are visible. *)
(***************************************************************************)
EXTENDS Integers, Sequences, FiniteSets, TLC

VARIABLES
    now,        \* the wall clock (UTC), in ticks
    storage,    \* InMemoryRateLimiter.storage: key -> list of timestamps
    admitted,   \* history: per key, the admissions still inside its policy window
    rlLast,     \* observation of the last rate-limiter call
    calls,      \* number of rate-limiter calls made so far
    lock,       \* InMemoryRateLimiter.lock: Unlocked, or the thread that locked it
    th,         \* per thread: its position in check_rate_limit and its locals
    tzOffset,   \* the server's local-time offset from UTC, in hours
    secretKey,  \* auth.SECRET_KEY
    refreshSecret,  \* auth.REFRESH_TOKEN_SECRET
    tokens,     \* the tokens minted so far, each with its mint time and TTL
    tokLast,    \* observation of the last decode call
    users,      \* the users table: what has become of each user id
    authLast,   \* observation of the last request resolved to a principal
    todos,      \* the todos table: id -> row, for the ids that have a row
    todoLast,   \* observation of the last todo request
    sessions,   \* the session table: the rows stored
    served,     \* history: per client IP, when login ran its credential check
    acctLast,   \* observation of the last register or login request
    bcryptStrict,   \* the bcrypt library installed refuses inputs over 72 bytes
    hashLast,   \* observation of the last hasher call
    instance,   \* rate_limiter._rate_limiter_instance: NoInstance, or a limiter
    limiters,   \* the InMemoryRateLimiter objects constructed: id -> storage
    gt,         \* per thread: its position in get_rate_limiter and what it got
    reg         \* per worker: the register request it is serving, and how far

limiterVars == <<storage, admitted, rlLast, calls>>

threadVars == <<lock, th>>

raceVars == <<instance, limiters, gt, reg>>

configVars == <<tzOffset, secretKey, refreshSecret, bcryptStrict>>

tokenVars == <<tokens, tokLast>>

resolverVars == <<users, authLast>>

todoVars == <<todos, todoLast>>

accountVars == <<sessions, served, acctLast>>

appVars == <<resolverVars, todoVars, accountVars, hashLast>>

\* What the rate limiter's operations, called from one thread, leave alone.
outsideThreads == <<raceVars, configVars, tokenVars, appVars>>

outsideLimiter == <<threadVars, outsideThreads>>

vars == <<now, limiterVars, threadVars, raceVars, configVars, tokenVars, appVars>>

(***************************************************************************)
(* Bounds of the model                                                     *)
(***************************************************************************)
TicksPerSecond == 2
MaxCalls == 6
MaxKeys == 2
NumThreads == 2
MaxTokens == 2

(***************************************************************************)
(* Program constants                                                       *)
(***************************************************************************)
LOGIN_MAX_ATTEMPTS == 5
LOGIN_WINDOW_SECONDS == 900
REGISTER_MAX_ATTEMPTS == 3
REGISTER_WINDOW_SECONDS == 3600
PASSWORD_RESET_MAX_ATTEMPTS == 3
PASSWORD_RESET_WINDOW_SECONDS == 3600
EMAIL_VERIFICATION_MAX_ATTEMPTS == 3
EMAIL_VERIFICATION_WINDOW_SECONDS == 3600
RETRY_WINDOW_SECONDS == 900
CLEANUP_DEFAULT_WINDOW_SECONDS == 3600
ACCESS_TOKEN_EXPIRE_MINUTES == 30
REFRESH_TOKEN_EXPIRE_DAYS == 7

Ticks(seconds) == seconds * TicksPerSecond

Max(a, b) == IF a >= b THEN a ELSE b

SeqMin(s) == CHOOSE x \in {s[i] : i \in 1..Len(s)} :
                \A j \in 1..Len(s) : x <= s[j]

(***************************************************************************)
(* Inputs                                                                  *)
(***************************************************************************)
ClientIPs == {"10.0.0.1"}

KeyPrefixes == {"login", "register", "password_reset", "email_verification"}

RateKey(prefix, ip) == <<prefix, ip>>

Keys == {RateKey(p, ip) : p \in KeyPrefixes, ip \in ClientIPs}

\* The instants at which the clock is read: just at, and just after, the
\* window boundaries of the policies.
Instants ==
    {Ticks(b) + f : b \in {0, LOGIN_WINDOW_SECONDS, REGISTER_WINDOW_SECONDS},
                    f \in {0, 1}}

(***************************************************************************)
(* InMemoryRateLimiter                                                     *)
(***************************************************************************)
StoredList(st, key) == IF key \in DOMAIN st THEN st[key] ELSE <<>>

Put(st, key, ts) == [k \in DOMAIN st \cup {key} |-> IF k = key THEN ts ELSE st[k]]

RemoveEveryKey(st, ks) == <<>>

Remove(st, ks) == [k \in DOMAIN st \ ks |-> st[k]]

\* Mutant: a timestamp exactly window_seconds old is kept.
UnexpiredInclusive(ts, cutoff_time) ==
    LET Keep(timestamp) == timestamp >= cutoff_time
    IN  SelectSeq(ts, Keep)

\* [timestamp for timestamp in self.storage[key] if timestamp > cutoff_time]
Unexpired(ts, cutoff_time) ==
    LET Keep(timestamp) == timestamp > cutoff_time
    IN  SelectSeq(ts, Keep)

\* Mutant: the limit is compared with <=.
UnderLimitOffByOne(count, max_attempts) == count <= max_attempts

\* len(self.storage[key]) < max_attempts
UnderLimit(count, max_attempts) == count < max_attempts

CheckAllowedUnpruned(st, key, max_attempts, window_seconds, current_time) ==
    UnderLimit(Len(StoredList(st, key)), max_attempts)

\* check_rate_limit: the value returned
CheckAllowed(st, key, max_attempts, window_seconds, current_time) ==
    LET cutoff_time == current_time - Ticks(window_seconds)
    IN  UnderLimit(Len(Unexpired(StoredList(st, key), cutoff_time)), max_attempts)

\* check_rate_limit: the storage it leaves
CheckStorage(st, key, max_attempts, window_seconds, current_time) ==
    LET cutoff_time == current_time - Ticks(window_seconds)
        kept == Unexpired(StoredList(st, key), cutoff_time)
    IN  IF UnderLimit(Len(kept), max_attempts)
        THEN Put(st, key, Append(kept, current_time))
        ELSE Put(st, key, kept)

\* get_retry_after: int() truncates the float difference to whole seconds
RetryAfter(st, key, current_time) ==
    IF key \notin DOMAIN st \/ st[key] = <<>>
    THEN 0
    ELSE LET oldest_timestamp == SeqMin(st[key])
             retry_after == oldest_timestamp + Ticks(RETRY_WINDOW_SECONDS) - current_time
         IN  Max(0, retry_after \div TicksPerSecond)

ResetStorageForgotten(st, key) == st

\* if key in self.storage: del self.storage[key]
ResetStorage(st, key) == Remove(st, {key})

CleanupKeysToRemove(st, window_seconds, current_time) ==
    {k \in DOMAIN st : Unexpired(st[k], current_time - Ticks(window_seconds)) = <<>>}

CleanupStorage(st, window_seconds, current_time) ==
    LET cutoff_time == current_time - Ticks(window_seconds)
        pruned == [k \in DOMAIN st |-> Unexpired(st[k], cutoff_time)]
    IN  Remove(pruned, CleanupKeysToRemove(st, window_seconds, current_time))

CleanupRemovedCount(st, window_seconds, current_time) ==
    Cardinality(CleanupKeysToRemove(st, window_seconds, current_time))

(***************************************************************************)
(* dependencies.py: the rate-limit policies                                *)
(***************************************************************************)
PolicyMaxAttempts(prefix) ==
    CASE prefix = "login" -> LOGIN_MAX_ATTEMPTS
      [] prefix = "register" -> REGISTER_MAX_ATTEMPTS
      [] prefix = "password_reset" -> PASSWORD_RESET_MAX_ATTEMPTS
      [] prefix = "email_verification" -> EMAIL_VERIFICATION_MAX_ATTEMPTS

PolicyWindowSeconds(prefix) ==
    CASE prefix = "login" -> LOGIN_WINDOW_SECONDS
      [] prefix = "register" -> REGISTER_WINDOW_SECONDS
      [] prefix = "password_reset" -> PASSWORD_RESET_WINDOW_SECONDS
      [] prefix = "email_verification" -> EMAIL_VERIFICATION_WINDOW_SECONDS

(***************************************************************************)
(* State after construction                                                *)
(***************************************************************************)
NoCall ==
    [op |-> "none", via |-> "none", key |-> <<>>, max_attempts |-> 0,
     window_seconds |-> 0, at |-> 0, had_key |-> FALSE, before |-> <<>>,
     allowed |-> FALSE, value |-> 0]

InitClock == now = 0

InitLimiter ==
    /\ storage = <<>>
    /\ admitted = [k \in Keys |-> <<>>]
    /\ rlLast = NoCall
    /\ calls = 0

Threads == 1..NumThreads

\* threading.Lock() is created unlocked
Unlocked == 0

Idle ==
    [pc |-> "idle", op |-> "none", key |-> <<>>, max_attempts |-> 0,
     window_seconds |-> 0, current_time |-> 0]

InitThreads ==
    /\ lock = Unlocked
    /\ th = [t \in Threads |-> Idle]

(***************************************************************************)
(* The clock                                                               *)
(***************************************************************************)
\* History bookkeeping (not program state): the admissions of each key that
\* lie in the half-open interval (t - w, t], w the window of the key's policy.
\* Every half-open interval of length w that holds admissions lies inside
\* such an interval ending at its last admission.
StillInWindow(adm, t) ==
    [k \in Keys |->
        LET Inside(a) == t - a < Ticks(PolicyWindowSeconds(k[1]))
        IN  SelectSeq(adm[k], Inside)]

\* The clock moves on to a later instant of the given set.
Advance(instants) ==
    /\ \E t \in instants : t > now /\ now' = t
    /\ admitted' = StillInWindow(admitted, now')
    /\ UNCHANGED <<storage, rlLast, calls, outsideLimiter>>

Tick == Advance(Instants)

(***************************************************************************)
(* Rate-limiter operations, called directly                                *)
(***************************************************************************)
Observe(op, via, key, m, w, allowed, value) ==
    [op |-> op, via |-> via, key |-> key, max_attempts |-> m,
     window_seconds |-> w, at |-> now, had_key |-> key \in DOMAIN storage,
     before |-> StoredList(storage, key), allowed |-> allowed, value |-> value]

CheckRateLimit(key, max_attempts, window_seconds) ==
    /\ calls < MaxCalls
    /\ calls' = calls + 1
    /\ storage' = CheckStorage(storage, key, max_attempts, window_seconds, now)
    /\ rlLast' = Observe("check_rate_limit", "direct", key, max_attempts, window_seconds,
                         CheckAllowed(storage, key, max_attempts, window_seconds, now), 0)
    /\ UNCHANGED <<now, admitted, outsideLimiter>>

GetRetryAfter(key) ==
    /\ calls < MaxCalls
    /\ calls' = calls + 1
    /\ rlLast' = Observe("get_retry_after", "direct", key, 0, 0, FALSE,
                         RetryAfter(storage, key, now))
    /\ UNCHANGED <<now, storage, admitted, outsideLimiter>>

Reset(key) ==
    /\ calls < MaxCalls
    /\ calls' = calls + 1
    /\ storage' = ResetStorage(storage, key)
    /\ rlLast' = Observe("reset", "direct", key, 0, 0, FALSE, 0)
    /\ UNCHANGED <<now, admitted, outsideLimiter>>

CleanupExpired(window_seconds) ==
    /\ calls < MaxCalls
    /\ calls' = calls + 1
    /\ storage' = CleanupStorage(storage, window_seconds, now)
    /\ rlLast' = Observe("cleanup_expired", "direct", <<>>, 0, window_seconds, FALSE,
                         CleanupRemovedCount(storage, window_seconds, now))
    /\ UNCHANGED <<now, admitted, outsideLimiter>>

(***************************************************************************)
(* dependencies.py: check_rate_limit and the pre-configured dependencies   *)
(***************************************************************************)
DepCheckRateLimit(ip, key_prefix, max_attempts, window_seconds) ==
    LET key == RateKey(key_prefix, ip)
        allowed == CheckAllowed(storage, key, max_attempts, window_seconds, now)
        after == CheckStorage(storage, key, max_attempts, window_seconds, now)
        retry_after == IF allowed THEN 0 ELSE RetryAfter(after, key, now)
    IN  /\ calls < MaxCalls
        /\ Cardinality(DOMAIN storage \cup {key}) <= MaxKeys
        /\ calls' = calls + 1
        /\ storage' = after
        /\ rlLast' = Observe("check_rate_limit", key_prefix, key, max_attempts,
                             window_seconds, allowed, retry_after)
        /\ admitted' = IF allowed
                       THEN [admitted EXCEPT ![key] = Append(@, now)]
                       ELSE admitted
        /\ UNCHANGED <<now, outsideLimiter>>

LoginRateLimit(ip) ==
    DepCheckRateLimit(ip, "login", LOGIN_MAX_ATTEMPTS, LOGIN_WINDOW_SECONDS)

RegisterRateLimit(ip) ==
    DepCheckRateLimit(ip, "register", REGISTER_MAX_ATTEMPTS, REGISTER_WINDOW_SECONDS)

PasswordResetRateLimit(ip) ==
    DepCheckRateLimit(ip, "password_reset", PASSWORD_RESET_MAX_ATTEMPTS,
                      PASSWORD_RESET_WINDOW_SECONDS)

EmailVerificationRateLimit(ip) ==
    DepCheckRateLimit(ip, "email_verification", EMAIL_VERIFICATION_MAX_ATTEMPTS,
                      EMAIL_VERIFICATION_WINDOW_SECONDS)

CleanupExpiredDefault == CleanupExpired(CLEANUP_DEFAULT_WINDOW_SECONDS)

(***************************************************************************)
(* auth.py: minting and decoding tokens                                    *)
(***************************************************************************)
SecondsPerHour == 3600

ACCESS_TTL_SECONDS == ACCESS_TOKEN_EXPIRE_MINUTES * 60

REFRESH_TTL_SECONDS == REFRESH_TOKEN_EXPIRE_DAYS * 24 * 60 * 60

\* The offsets of the server's time zone the model runs under.
TzOffsets == {-5, 0, 2}

\* A claim the payload does not carry (payload.get(...) is None).
Absent == "<absent>"

UserIds == {"u1", "u2"}

\* What callers pass as data["sub"]: a user id, a string that is no UUID, or
\* nothing.
SubjectArgs == UserIds \cup {"not-a-uuid", Absent}

\* expires_delta, in ticks; NoDelta is expires_delta=None
NoDelta == -1

\* The exp of a payload that carries none (payload.get("exp") is None).
NoExp == -1

DeltaArgs == {NoDelta, Ticks(LOGIN_WINDOW_SECONDS)}

\* `if expires_delta:` - None is falsy, and so is timedelta(0).
Truthy(expires_delta) == expires_delta /= NoDelta /\ expires_delta /= 0

\* jose turns a datetime claim into whole seconds since the epoch
\* (timegm(utctimetuple())): the fraction of a second is dropped.
NumericDate(ticks) == ticks \div TicksPerSecond

\* The token as the string a client holds: its payload and the secret that
\* signed it.
Jwt(sub, exp, iat, type, key) ==
    [kind |-> "jwt", sub |-> sub, exp |-> exp, iat |-> iat, type |-> type,
     key |-> key]

DictKeepExisting(d, u) ==
    [k \in DOMAIN d \cup DOMAIN u |-> IF k \in DOMAIN d THEN d[k] ELSE u[k]]

\* d.update(u): the keys of u are set in d, over what d held under them
DictUpdate(d, u) ==
    [k \in DOMAIN d \cup DOMAIN u |-> IF k \in DOMAIN u THEN u[k] ELSE d[k]]

\* the body of create_access_token / create_refresh_token, for the caller's
\* data dict
MintFromData(data, expires_delta, default_ttl_seconds, type, key, utcnow) ==
    LET expire == IF Truthy(expires_delta)
                  THEN utcnow + expires_delta
                  ELSE utcnow + Ticks(default_ttl_seconds)
        to_encode == DictUpdate(data, [exp |-> NumericDate(expire),
                                       iat |-> NumericDate(utcnow),
                                       type |-> type])
    IN  Jwt(IF "sub" \in DOMAIN to_encode THEN to_encode.sub ELSE Absent,
            to_encode.exp, to_encode.iat, to_encode.type, key)

\* data = {"sub": sub}, or {} without a subject
SubjectData(sub) == IF sub = Absent THEN <<>> ELSE [sub |-> sub]

\* create_access_token / create_refresh_token called with data={"sub": sub}
MintToken(sub, expires_delta, default_ttl_seconds, type, key, utcnow) ==
    MintFromData(SubjectData(sub), expires_delta, default_ttl_seconds, type, key, utcnow)

CreateAccessTokenForNobody(sub, expires_delta, utcnow) ==
    MintToken(Absent, expires_delta, ACCESS_TTL_SECONDS, "access", secretKey, utcnow)

CreateAccessTokenValue(sub, expires_delta, utcnow) ==
    MintToken(sub, expires_delta, ACCESS_TTL_SECONDS, "access", secretKey, utcnow)

CreateRefreshTokenValue(sub, expires_delta, utcnow) ==
    MintToken(sub, expires_delta, REFRESH_TTL_SECONDS, "refresh", refreshSecret, utcnow)

\* The HTTPException the decode functions and the dependencies raise.
Unauthorized(detail) ==
    [status |-> 401, detail |-> detail, www_authenticate |-> "Bearer",
     payload |-> [kind |-> "none"]]

Decoded(token) ==
    [status |-> 200, detail |-> "", www_authenticate |-> "", payload |-> token]

\* jwt.decode(token, key, algorithms=[ALGORITHM]): the signature must verify
\* under key, and an exp claim must not lie before the current whole second.
\* TRUE when it raises JWTError.
JoseRejects(token, key, utcnow) ==
    \/ token.kind /= "jwt"
    \/ token.key /= key
    \/ token.exp /= NoExp /\ token.exp < NumericDate(utcnow)

\* datetime.fromtimestamp(exp) < datetime.utcnow(): fromtimestamp gives the
\* server's local time, which is compared with the UTC clock.
LocalExpiryPassed(exp, utcnow) ==
    Ticks(exp + tzOffset * SecondsPerHour) < utcnow

\* the body of decode_access_token / decode_refresh_token
DecodeToken(token, key, expected_type, detail, utcnow) ==
    IF JoseRejects(token, key, utcnow) THEN Unauthorized(detail)
    ELSE IF token.type /= expected_type THEN Unauthorized(detail)
    ELSE IF token.exp /= NoExp /\ token.exp /= 0
            /\ LocalExpiryPassed(token.exp, utcnow) THEN Unauthorized(detail)
    ELSE Decoded(token)

DecodeAccessTokenValue(token, utcnow) ==
    DecodeToken(token, secretKey, "access", "Could not validate credentials", utcnow)

DecodeRefreshTokenValue(token, utcnow) ==
    DecodeToken(token, refreshSecret, "refresh", "Invalid refresh token", utcnow)

NoDecode ==
    [fn |-> "none", minted |-> [by |-> "none"], at |-> 0,
     result |-> [status |-> 0]]

\* The server as deployed: in UTC, with the two default secrets.
InitConfig ==
    /\ bcryptStrict = FALSE
    /\ tzOffset = 0
    /\ secretKey = "SECRET_KEY"
    /\ refreshSecret = "REFRESH_TOKEN_SECRET"

\* The server under any time zone, with the refresh secret either its own or
\* configured to the same value as the access secret.
InitAnyConfig ==
    /\ bcryptStrict = FALSE
    /\ tzOffset \in TzOffsets
    /\ secretKey = "SECRET_KEY"
    /\ refreshSecret \in {"REFRESH_TOKEN_SECRET", "SECRET_KEY"}

InitTokens ==
    /\ tokens = {}
    /\ tokLast = NoDecode

\* The TTL a caller asked for: expires_delta, or the default without one.
RequestedTtl(expires_delta, default_ttl_seconds) ==
    IF expires_delta = NoDelta THEN Ticks(default_ttl_seconds) ELSE expires_delta

CreateAccessToken(sub, expires_delta) ==
    /\ Cardinality(tokens) < MaxTokens
    /\ tokens' = tokens \cup
          {[by |-> "create_access_token",
            token |-> CreateAccessTokenValue(sub, expires_delta, now),
            minted_at |-> now,
            ttl |-> RequestedTtl(expires_delta, ACCESS_TTL_SECONDS)]}
    /\ UNCHANGED <<now, limiterVars, threadVars, raceVars, configVars, tokLast, appVars>>

CreateRefreshToken(sub, expires_delta) ==
    /\ Cardinality(tokens) < MaxTokens
    /\ tokens' = tokens \cup
          {[by |-> "create_refresh_token",
            token |-> CreateRefreshTokenValue(sub, expires_delta, now),
            minted_at |-> now,
            ttl |-> RequestedTtl(expires_delta, REFRESH_TTL_SECONDS)]}
    /\ UNCHANGED <<now, limiterVars, threadVars, raceVars, configVars, tokLast, appVars>>

\* What callers pass as data: the subject alone, or with a type, an exp and
\* an iat of their own.
DataArgs ==
    {[sub |-> "u1"]} \cup
    {[sub |-> "u1", type |-> type,
      exp |-> NumericDate(Ticks(REFRESH_TTL_SECONDS)) + 1, iat |-> 1] :
        type \in {"access", "refresh"}}

\* create_access_token(data, expires_delta)
CreateAccessTokenWith(data, expires_delta) ==
    /\ Cardinality(tokens) < MaxTokens
    /\ tokens' = tokens \cup
          {[by |-> "create_access_token",
            token |-> MintFromData(data, expires_delta, ACCESS_TTL_SECONDS, "access",
                                   secretKey, now),
            minted_at |-> now,
            ttl |-> RequestedTtl(expires_delta, ACCESS_TTL_SECONDS),
            data |-> data]}
    /\ UNCHANGED <<now, limiterVars, threadVars, raceVars, configVars, tokLast, appVars>>

\* create_refresh_token(data, expires_delta)
CreateRefreshTokenWith(data, expires_delta) ==
    /\ Cardinality(tokens) < MaxTokens
    /\ tokens' = tokens \cup
          {[by |-> "create_refresh_token",
            token |-> MintFromData(data, expires_delta, REFRESH_TTL_SECONDS, "refresh",
                                   refreshSecret, now),
            minted_at |-> now,
            ttl |-> RequestedTtl(expires_delta, REFRESH_TTL_SECONDS),
            data |-> data]}
    /\ UNCHANGED <<now, limiterVars, threadVars, raceVars, configVars, tokLast, appVars>>

DecodeAccessToken(m) ==
    /\ tokLast' = [fn |-> "decode_access_token", minted |-> m, at |-> now,
                   result |-> DecodeAccessTokenValue(m.token, now)]
    /\ UNCHANGED <<now, limiterVars, threadVars, raceVars, configVars, tokens, appVars>>

DecodeRefreshToken(m) ==
    /\ tokLast' = [fn |-> "decode_refresh_token", minted |-> m, at |-> now,
                   result |-> DecodeRefreshTokenValue(m.token, now)]
    /\ UNCHANGED <<now, limiterVars, threadVars, raceVars, configVars, tokens, appVars>>

\* The instants at which tokens are minted and checked: at, and just after,
\* the start and the two expiry times.
TokenInstants ==
    {Ticks(b) + f : b \in {0, LOGIN_WINDOW_SECONDS, ACCESS_TTL_SECONDS}, f \in {0, 1}}

TokenTick == Advance(TokenInstants)

(***************************************************************************)
(* models.py, routers/auth.py: the users table, register and login         *)
(***************************************************************************)
Emails == {"a@example.com", "b@example.com"}

Passwords == {"password-1", "password-2"}

\* User.hash_password / User.verify_password
HashPassword(password) == <<"bcrypt", password>>

VerifyAnyPassword(password, hashed_password) == TRUE

VerifyPassword(password, hashed_password) == hashed_password = HashPassword(password)

\* A user id no row was ever stored under, and one whose row was deleted.
NoRow(state) == [state |-> state, email |-> "", hashed_password |-> <<>>]

UserRow(email, password) ==
    [state |-> "active", email |-> email, hashed_password |-> HashPassword(password)]

InitUsers == users = [u \in UserIds |-> NoRow("unused")]

\* select(User).where(User.id == user_id) finds a row
UserExists(store, user_id) == store[user_id].state = "active"

UsersByEmailNotFound(store, email) == {}

\* select(User).where(User.email == email): the ids of the rows found
UsersByEmail(store, email) ==
    {u \in UserIds : store[u].state = "active" /\ store[u].email = email}

\* The token handed to the client joins the tokens clients hold (of which
\* the model follows MaxTokens).
Issue(by, token, ttl_seconds) ==
    tokens' =
        IF Cardinality(tokens) < MaxTokens
        THEN tokens \cup {[by |-> by, token |-> token, minted_at |-> now,
                           ttl |-> Ticks(ttl_seconds)]}
        ELSE tokens

NoAccountRequest ==
    [op |-> "none", ip |-> "", email |-> "", password |-> "", at |-> 0,
     before |-> <<>>, after |-> <<>>, issued |-> [kind |-> "none"],
     response |-> [status |-> 0, detail |-> "", www_authenticate |-> ""],
     cookies |-> <<>>]

InitAccounts ==
    /\ sessions = {}
    /\ served = [ip \in ClientIPs |-> <<>>]
    /\ acctLast = NoAccountRequest

\* The tables an account request can write.
Stored(user_table, session_table) == [users |-> user_table, sessions |-> session_table]

\* The request, the token in the response body, the cookies the response
\* sets (name -> value; register and login set none), and the tables before
\* and after.
ObserveAccount(op, ip, email, password, issued, response) ==
    acctLast' = [op |-> op, ip |-> ip, email |-> email, password |-> password,
                 at |-> now, before |-> Stored(users, sessions),
                 after |-> Stored(users', sessions'), issued |-> issued,
                 response |-> response, cookies |-> <<>>]

\* Token(access_token=..., token_type="bearer", user=...)
TokenResponse(status_code) ==
    [status |-> status_code, detail |-> "", www_authenticate |-> ""]

EmailAlreadyRegistered ==
    [status |-> 400, detail |-> "Email already registered", www_authenticate |-> ""]

InvalidCredentials ==
    [status |-> 401, detail |-> "Invalid credentials", www_authenticate |-> "Bearer"]

\* POST /api/auth/register; the new row gets a fresh uuid4 as its id.
Register(ip, email, password) ==
    /\ UNCHANGED <<now, limiterVars, threadVars, raceVars, configVars, hashLast, tokLast, authLast, todoVars,
                   sessions, served>>
    /\ IF UsersByEmail(users, email) /= {}
       THEN /\ UNCHANGED <<users, tokens>>
            /\ ObserveAccount("register", ip, email, password, [kind |-> "none"],
                              EmailAlreadyRegistered)
       ELSE \E new_id \in UserIds :
              LET access_token == CreateAccessTokenValue(new_id, NoDelta, now)
              IN  /\ users[new_id].state = "unused"
                  /\ users' = [users EXCEPT ![new_id] = UserRow(email, password)]
                  /\ Issue("create_access_token", access_token, ACCESS_TTL_SECONDS)
                  /\ ObserveAccount("register", ip, email, password, access_token,
                                    TokenResponse(201))

\* POST /api/auth/login
Login(ip, email, password) ==
    /\ UNCHANGED <<now, limiterVars, threadVars, raceVars, configVars, hashLast, tokLast, resolverVars,
                   todoVars, sessions>>
    /\ Len(served[ip]) <= LOGIN_MAX_ATTEMPTS
    /\ served' = [served EXCEPT ![ip] = Append(@, now)]
    /\ IF \A u \in UsersByEmail(users, email) :
              ~VerifyPassword(password, users[u].hashed_password)
       THEN /\ UNCHANGED tokens
            /\ ObserveAccount("login", ip, email, password, [kind |-> "none"],
                              InvalidCredentials)
       ELSE \E u \in UsersByEmail(users, email) :
              LET access_token == CreateAccessTokenValue(u, NoDelta, now)
              IN  /\ Issue("create_access_token", access_token, ACCESS_TTL_SECONDS)
                  /\ ObserveAccount("login", ip, email, password, access_token,
                                    TokenResponse(200))

\* The row of a user leaves the users table; the foreign keys of
\* todo.user_id and session.user_id are ON DELETE CASCADE, so the user's
\* todos and sessions leave with it.
DeleteUser(user_id) ==
    /\ users[user_id].state = "active"
    /\ users' = [users EXCEPT ![user_id] = NoRow("deleted")]
    /\ todos' = [i \in {j \in DOMAIN todos : todos[j].user_id /= user_id} |-> todos[i]]
    /\ sessions' = {row \in sessions : row.user_id /= user_id}
    /\ UNCHANGED <<now, limiterVars, threadVars, raceVars, configVars, hashLast, tokenVars, authLast, todoLast,
                   served, acctLast>>

(***************************************************************************)
(* dependencies.py: get_current_user and get_current_user_id               *)
(***************************************************************************)
\* request.cookies.get("access_token") without the cookie, and oauth2_scheme
\* without an Authorization header: None
NoToken == [kind |-> "none"]

\* a cookie or a bearer credential that is the empty string
EmptyToken == [kind |-> "empty"]

\* A token signed by someone who does not hold SECRET_KEY.
ForgedToken(sub) ==
    Jwt(sub, NumericDate(Ticks(REFRESH_TTL_SECONDS)), 0, "access", "attacker-key")

\* `not token`
Falsy(token) == token.kind \in {"none", "empty"}

\* UUID(user_id_str) does not raise ValueError
IsUuid(user_id_str) == user_id_str \in UserIds

CredentialsException ==
    [status |-> 401, detail |-> "Could not validate credentials",
     www_authenticate |-> "Bearer", principal |-> Absent]

\* The dependency returns, and the handler runs on behalf of the principal.
Resolved(principal) ==
    [status |-> 200, detail |-> "", www_authenticate |-> "", principal |-> principal]

TokenHeaderFirst(cookie, token_from_header) ==
    IF Falsy(token_from_header) THEN cookie ELSE token_from_header

\* token = get_token_from_cookie(...); if not token: token = token_from_header
TokenOf(cookie, token_from_header) ==
    IF Falsy(cookie) THEN token_from_header ELSE cookie

LookupUserOr404(store, user_id) ==
    IF UserExists(store, user_id) THEN Resolved(user_id)
    ELSE [status |-> 404, detail |-> "User not found", www_authenticate |-> "",
          principal |-> Absent]

\* user = db.exec(select(User).where(User.id == user_id)).first()
LookupUser(store, user_id) ==
    IF UserExists(store, user_id) THEN Resolved(user_id) ELSE CredentialsException

GetCurrentUserValue(cookie, token_from_header, store, utcnow) ==
    LET token == TokenOf(cookie, token_from_header)
        payload == DecodeAccessTokenValue(token, utcnow)
    IN  IF Falsy(token) THEN CredentialsException
        ELSE IF payload.status /= 200 THEN CredentialsException
        ELSE IF payload.payload.sub = Absent THEN CredentialsException
        ELSE IF ~IsUuid(payload.payload.sub) THEN CredentialsException
        ELSE LookupUser(store, payload.payload.sub)

GetCurrentUserIdValue(cookie, token_from_header, utcnow) ==
    LET token == TokenOf(cookie, token_from_header)
        payload == DecodeAccessTokenValue(token, utcnow)
    IN  IF Falsy(token) THEN CredentialsException
        ELSE IF payload.status /= 200 THEN CredentialsException
        ELSE IF payload.payload.sub = Absent THEN CredentialsException
        ELSE IF ~IsUuid(payload.payload.sub) THEN CredentialsException
        ELSE Resolved(payload.payload.sub)

NoRequest ==
    [dep |-> "none", cookie |-> NoToken, header |-> NoToken, store |-> <<>>,
     at |-> 0, result |-> [status |-> 0]]

InitResolver == InitUsers /\ authLast = NoRequest

\* A request to an endpoint that depends on get_current_user.
GetCurrentUser(cookie, token_from_header) ==
    /\ authLast' = [dep |-> "get_current_user", cookie |-> cookie,
                    header |-> token_from_header, store |-> users, at |-> now,
                    result |-> GetCurrentUserValue(cookie, token_from_header, users, now)]
    /\ UNCHANGED <<now, limiterVars, threadVars, raceVars, configVars, hashLast, tokenVars, users, todoVars,
                 accountVars>>

\* A request to an endpoint that depends on get_current_user_id.
GetCurrentUserId(cookie, token_from_header) ==
    /\ authLast' = [dep |-> "get_current_user_id", cookie |-> cookie,
                    header |-> token_from_header, store |-> users, at |-> now,
                    result |-> GetCurrentUserIdValue(cookie, token_from_header, now)]
    /\ UNCHANGED <<now, limiterVars, threadVars, raceVars, configVars, hashLast, tokenVars, users, todoVars,
                 accountVars>>

\* The instants at which requests arrive: at the start, at the expiry of a
\* token minted then, and just after it.
ResolverInstants == {0, Ticks(ACCESS_TTL_SECONDS), Ticks(ACCESS_TTL_SECONDS) + 1}

ResolverTick == Advance(ResolverInstants)

(***************************************************************************)
(* models.py, routers/todos.py: the todos table and its endpoints          *)
(***************************************************************************)
\* Todo.id values (uuid4)
TodoIds == {"todo-1", "todo-2"}

Titles == {"Buy groceries", "Finish project"}

PriorityLevels == {"high", "normal"}

\* TodoUpdate bodies, as model_dump(exclude_unset=True) gives them: only the
\* fields the client sent (description is carried like title).
TodoUpdates ==
    {[completed |-> TRUE],
     [title |-> "Finish project", priority |-> "high"],
     [priority |-> "normal"]}

\* list_todos' priority query parameter; Absent is priority=None
PriorityFilters == PriorityLevels \cup {Absent}

NoTodoRequest ==
    [op |-> "none", principal |-> Absent, todo_id |-> Absent, before |-> <<>>,
     after |-> <<>>, response |-> [status |-> 0, detail |-> "", body |-> <<>>]]

InitTodos ==
    /\ todos = <<>>
    /\ todoLast = NoTodoRequest

\* The row as TodoPublic shows it.
TodoRow(table, id) == [id |-> id] @@ table[id]

Respond(status_code, body) == [status |-> status_code, detail |-> "", body |-> body]

TodoNotFound == [status |-> 404, detail |-> "Todo not found", body |-> <<>>]

ObserveTodo(op, current_user, todo_id, response) ==
    todoLast' = [op |-> op, principal |-> current_user, todo_id |-> todo_id,
                 before |-> todos, after |-> todos', response |-> response]

SelectOwnedAnyOwner(table, current_user, priority) ==
    {i \in DOMAIN table : priority /= Absent => table[i].priority = priority}

\* select(Todo).where(Todo.user_id == current_user.id), with the priority
\* filter when one is given: the ids of the rows found
SelectOwned(table, current_user, priority) ==
    {i \in DOMAIN table :
        /\ table[i].user_id = current_user
        /\ priority /= Absent => table[i].priority = priority}

\* order_by(desc(Todo.priority == "high"), desc(Todo.created_at)): TRUE when
\* the row a may stand before the row b
OrderedBefore(a, b) ==
    \/ a.priority = "high" /\ b.priority /= "high"
    \/ /\ (a.priority = "high") = (b.priority = "high")
       /\ a.created_at >= b.created_at

\* The listings of the ids in the query's order; rows that tie may come in
\* any order.
Listings(table, ids) ==
    {body \in [1..Cardinality(ids) -> {TodoRow(table, i) : i \in ids}] :
        /\ \A i \in ids : \E n \in DOMAIN body : body[n].id = i
        /\ \A m \in DOMAIN body, n \in DOMAIN body :
               m < n => OrderedBefore(body[m], body[n])}

SelectTodoAnyOwner(table, todo_id, current_user) ==
    {i \in DOMAIN table : i = todo_id}

\* select(Todo).where(Todo.id == todo_id, Todo.user_id == current_user.id):
\* the ids of the rows found
SelectTodo(table, todo_id, current_user) ==
    {i \in DOMAIN table : i = todo_id /\ table[i].user_id = current_user}

\* POST /api/todos; the new row gets a fresh uuid4 as its id.
CreateTodo(current_user, title, completed, priority) ==
    /\ UserExists(users, current_user)
    /\ \E new_id \in TodoIds \ DOMAIN todos :
          /\ todos' = (new_id :> [user_id |-> current_user, title |-> title,
                                  completed |-> completed, priority |-> priority,
                                  created_at |-> now, updated_at |-> now]) @@ todos
          /\ ObserveTodo("create_todo", current_user, Absent,
                         Respond(201, <<TodoRow(todos', new_id)>>))
    /\ UNCHANGED <<now, limiterVars, threadVars, raceVars, configVars, hashLast, tokenVars, resolverVars,
                 accountVars>>

\* GET /api/todos
ListTodos(current_user, priority) ==
    /\ UserExists(users, current_user)
    /\ todos' = todos
    /\ \E body \in Listings(todos, SelectOwned(todos, current_user, priority)) :
          ObserveTodo("list_todos", current_user, Absent, Respond(200, body))
    /\ UNCHANGED <<now, limiterVars, threadVars, raceVars, configVars, hashLast, tokenVars, resolverVars,
                 accountVars>>

\* GET /api/todos/{todo_id}
GetTodo(current_user, todo_id) ==
    /\ UserExists(users, current_user)
    /\ todos' = todos
    /\ ObserveTodo("get_todo", current_user, todo_id,
                   IF SelectTodo(todos, todo_id, current_user) = {} THEN TodoNotFound
                   ELSE Respond(200, <<TodoRow(todos, todo_id)>>))
    /\ UNCHANGED <<now, limiterVars, threadVars, raceVars, configVars, hashLast, tokenVars, resolverVars,
                 accountVars>>

\* setattr(todo, field, value) for the fields sent; updated_at = utcnow()
Updated(row, update_data, utcnow) ==
    [field \in DOMAIN row |->
        IF field = "updated_at" THEN utcnow
        ELSE IF field \in DOMAIN update_data THEN update_data[field]
        ELSE row[field]]

\* PATCH /api/todos/{todo_id}
UpdateTodo(current_user, todo_id, todo_update) ==
    /\ UserExists(users, current_user)
    /\ IF SelectTodo(todos, todo_id, current_user) = {}
       THEN /\ todos' = todos
            /\ ObserveTodo("update_todo", current_user, todo_id, TodoNotFound)
       ELSE /\ todos' = [todos EXCEPT ![todo_id] = Updated(@, todo_update, now)]
            /\ ObserveTodo("update_todo", current_user, todo_id,
                           Respond(200, <<TodoRow(todos', todo_id)>>))
    /\ UNCHANGED <<now, limiterVars, threadVars, raceVars, configVars, hashLast, tokenVars, resolverVars,
                 accountVars>>

\* DELETE /api/todos/{todo_id}
DeleteTodo(current_user, todo_id) ==
    /\ UserExists(users, current_user)
    /\ IF SelectTodo(todos, todo_id, current_user) = {}
       THEN /\ todos' = todos
            /\ ObserveTodo("delete_todo", current_user, todo_id, TodoNotFound)
       ELSE /\ todos' = [i \in DOMAIN todos \ {todo_id} |-> todos[i]]
            /\ ObserveTodo("delete_todo", current_user, todo_id, Respond(204, <<>>))
    /\ UNCHANGED <<now, limiterVars, threadVars, raceVars, configVars, hashLast, tokenVars, resolverVars,
                 accountVars>>

\* The instants at which todo requests arrive.
TodoInstants == {0, Ticks(LOGIN_WINDOW_SECONDS)}

TodoTick == Advance(TodoInstants)

(***************************************************************************)
(* auth.py, models.py, services/token.py: the hashers                      *)
(*                                                                         *)
(* A secret is its UTF-8 bytes, a sequence of numbers; the secrets of the  *)
(* model are ASCII. A bcrypt digest is modelled by what decides a later    *)
(* comparison: the salt and the bytes that went into the hash.             *)
(***************************************************************************)
BCRYPT_MAX_BYTES == 72

Min(a, b) == IF a <= b THEN a ELSE b

\* bytes[:72]
Truncated(bytes) == SubSeq(bytes, 1, Min(Len(bytes), BCRYPT_MAX_BYTES))

\* bcrypt.gensalt()
Salts == {"salt-1", "salt-2"}

BcryptDigest(salt, bytes) == [kind |-> "bcrypt", salt |-> salt, data |-> bytes]

\* An exception in place of a value.
Raised == [kind |-> "raised"]

\* Stored digests that are no bcrypt hash: the empty string, a string that
\* is no hash at all, and a hash cut short.
MalformedDigests ==
    {[kind |-> "malformed", text |-> ""],
     [kind |-> "malformed", text |-> "not-a-hash"],
     [kind |-> "malformed", text |-> "$2b$12$cut-short"]}

\* bcrypt.hashpw(password, salt): the library takes the first 72 bytes, or,
\* in the builds that refuse longer inputs, raises ValueError.
BcryptHashpw(bytes, salt) ==
    IF Len(bytes) > BCRYPT_MAX_BYTES /\ bcryptStrict THEN Raised
    ELSE BcryptDigest(salt, Truncated(bytes))

\* bcrypt.checkpw(password, hashed_password): raises ValueError on a salt
\* it cannot parse; "True" / "False" otherwise.
BcryptCheckpw(bytes, hashed) ==
    IF hashed.kind /= "bcrypt" THEN "raised"
    ELSE IF BcryptHashpw(bytes, hashed.salt) = Raised THEN "raised"
    ELSE IF BcryptHashpw(bytes, hashed.salt) = hashed THEN "True"
    ELSE "False"

\* pwd_context.hash(secret) of passlib's bcrypt scheme
PasslibHash(bytes, salt) == BcryptDigest(salt, Truncated(bytes))

\* pwd_context.verify(secret, hash): raises UnknownHashError on a hash it
\* cannot identify.
PasslibVerify(bytes, hashed) ==
    IF hashed.kind /= "bcrypt" THEN "raised"
    ELSE IF PasslibHash(bytes, hashed.salt) = hashed THEN "True"
    ELSE "False"

\* auth.hash_password
hash_password(password, salt) == BcryptHashpw(Truncated(password), salt)

\* auth.verify_password
verify_password(plain_password, hashed_password) ==
    BcryptCheckpw(Truncated(plain_password), hashed_password)

\* User.hash_password
User_hash_password(plain_password, salt) == PasslibHash(Truncated(plain_password), salt)

\* User.verify_password
User_verify_password(plain_password, hashed_password) ==
    PasslibVerify(Truncated(plain_password), hashed_password)

\* services.token.hash_token
hash_token(token, salt) == BcryptHashpw(token, salt)

\* services.token.verify_token_hash: any exception is answered False
verify_token_hash(plain_token, hashed_token) ==
    IF BcryptCheckpw(plain_token, hashed_token) = "raised" THEN "False"
    ELSE BcryptCheckpw(plain_token, hashed_token)

Hashers == {"hash_password", "User.hash_password", "hash_token"}

HashWith(hasher, secret, salt) ==
    CASE hasher = "hash_password" -> hash_password(secret, salt)
      [] hasher = "User.hash_password" -> User_hash_password(secret, salt)
      [] hasher = "hash_token" -> hash_token(secret, salt)

\* The verify function that goes with the hasher.
VerifyWith(hasher, secret, digest) ==
    CASE hasher = "hash_password" -> verify_password(secret, digest)
      [] hasher = "User.hash_password" -> User_verify_password(secret, digest)
      [] hasher = "hash_token" -> verify_token_hash(secret, digest)

\* The lengths of the secrets hashed: a password, the longest input bcrypt
\* takes whole, one byte more, and a token of the length of a short JWT.
SecretLengths == {8, BCRYPT_MAX_BYTES, BCRYPT_MAX_BYTES + 1, 80}

\* The secret of n bytes, each the letter 'a'.
SecretOfLength(n) == [i \in 1..n |-> 97]

\* The byte with one of its bits inverted.
FlipBit(byte, bit) ==
    IF (byte \div 2^bit) % 2 = 1 THEN byte - 2^bit ELSE byte + 2^bit

\* The secret with one bit of one byte inverted.
Mutated(secret, position, bit) ==
    [secret EXCEPT ![position] = FlipBit(@, bit)]

\* The bytes and bits the model inverts: the first and last byte of the
\* secret and the bytes on both sides of bcrypt's limit; the lowest and the
\* highest bit of an ASCII byte.
MutatedPositions(secret) ==
    {1, BCRYPT_MAX_BYTES, BCRYPT_MAX_BYTES + 1, Len(secret)} \cap DOMAIN secret

MutatedBits == {0, 6}

NoHashCall ==
    [op |-> "none", hasher |-> "", secret |-> <<>>, candidate |-> <<>>,
     digest |-> [kind |-> "none"], result |-> ""]

InitHashers == hashLast = NoHashCall

\* The result of verifying the candidate against the digest of the secret;
\* "raised" already when hashing raised.
VerifyAfterHash(hasher, secret, candidate, salt) ==
    IF HashWith(hasher, secret, salt) = Raised THEN "raised"
    ELSE VerifyWith(hasher, candidate, HashWith(hasher, secret, salt))

\* digest = hash(secret); verify(candidate, digest)
HashThenVerify(hasher, secret, candidate) ==
    /\ \E salt \in Salts :
          hashLast' = [op |-> "hash_then_verify", hasher |-> hasher, secret |-> secret,
                       candidate |-> candidate,
                       digest |-> HashWith(hasher, secret, salt),
                       result |-> VerifyAfterHash(hasher, secret, candidate, salt)]
    /\ UNCHANGED <<now, limiterVars, threadVars, raceVars, configVars, tokenVars, resolverVars,
                   todoVars, accountVars>>

\* verify(secret, digest) with a stored digest that is no bcrypt hash
VerifyMalformed(hasher, secret, digest) ==
    /\ hashLast' = [op |-> "verify_malformed", hasher |-> hasher, secret |-> secret,
                    candidate |-> secret, digest |-> digest,
                    result |-> VerifyWith(hasher, secret, digest)]
    /\ UNCHANGED <<now, limiterVars, threadVars, raceVars, configVars, tokenVars, resolverVars,
                   todoVars, accountVars>>

(***************************************************************************)
(* rate_limiter.py: get_rate_limiter, called from several threads          *)
(***************************************************************************)
\* _rate_limiter_instance = None
NoInstance == 0

Waiting == [pc |-> "idle", made |-> NoInstance, got |-> NoInstance]

\* The worker processes of the server (uvicorn --workers), each serving one
\* request at a time on its event loop, all on the one database.
Workers == Threads

NoRegister ==
    [pc |-> "idle", ip |-> "", email |-> "", password |-> "",
     response |-> [status |-> 0, detail |-> "", www_authenticate |-> ""]]

InitRace ==
    /\ instance = NoInstance
    /\ limiters = <<>>
    /\ gt = [t \in Threads |-> Waiting]
    /\ reg = [w \in Workers |-> NoRegister]

\* What a step of get_rate_limiter or of its caller leaves alone.
outsideSingleton ==
    <<now, storage, admitted, rlLast, threadVars, reg, configVars, tokenVars, appVars>>

\* a request's rate-limit dependency calls get_rate_limiter_dependency(),
\* which calls get_rate_limiter()
GetRateLimiter(t) ==
    /\ gt[t].pc = "idle"
    /\ calls < MaxCalls
    /\ calls' = calls + 1
    /\ gt' = [gt EXCEPT ![t] = [pc |-> "test", made |-> NoInstance, got |-> NoInstance]]
    /\ UNCHANGED <<instance, limiters, outsideSingleton>>

\* if _rate_limiter_instance is None:
TestInstance(t) ==
    /\ gt[t].pc = "test"
    /\ gt' = [gt EXCEPT ![t].pc = IF instance = NoInstance THEN "construct" ELSE "return"]
    /\ UNCHANGED <<instance, limiters, calls, outsideSingleton>>

\* InMemoryRateLimiter(): a new object with an empty storage
Construct(t) ==
    /\ gt[t].pc = "construct"
    /\ LET new == Cardinality(DOMAIN limiters) + 1
       IN  /\ limiters' = [i \in DOMAIN limiters \cup {new} |->
                              IF i = new THEN <<>> ELSE limiters[i]]
           /\ gt' = [gt EXCEPT ![t].pc = "assign", ![t].made = new]
    /\ UNCHANGED <<instance, calls, outsideSingleton>>

\* _rate_limiter_instance = <the new object>
AssignInstance(t) ==
    /\ gt[t].pc = "assign"
    /\ instance' = gt[t].made
    /\ gt' = [gt EXCEPT ![t].pc = "return"]
    /\ UNCHANGED <<limiters, calls, outsideSingleton>>

\* return _rate_limiter_instance
ReturnInstance(t) ==
    /\ gt[t].pc = "return"
    /\ gt' = [gt EXCEPT ![t].pc = "use", ![t].got = instance]
    /\ UNCHANGED <<instance, limiters, calls, outsideSingleton>>

\* limiter.check_rate_limit(key, max_attempts, window_seconds) on the
\* instance the caller was given, under that instance's lock
UseInstance(t, ip, key_prefix) ==
    /\ gt[t].pc = "use"
    /\ limiters' = [limiters EXCEPT ![gt[t].got] =
                       CheckStorage(@, RateKey(key_prefix, ip), PolicyMaxAttempts(key_prefix),
                                    PolicyWindowSeconds(key_prefix), now)]
    /\ gt' = [gt EXCEPT ![t].pc = "idle"]
    /\ UNCHANGED <<instance, calls, outsideSingleton>>

(***************************************************************************)
(* routers/auth.py: register, served by several workers at once            *)
(***************************************************************************)
\* general_exception_handler
InternalServerError ==
    [status |-> 500, detail |-> "Internal server error. Please try again later.",
     www_authenticate |-> ""]

\* What a step of register leaves alone.
outsideRegister ==
    <<now, limiterVars, threadVars, instance, limiters, gt, configVars, hashLast, tokLast,
      authLast, todoVars, sessions, served>>

\* register up to the existence check: the select by email, and the 400 if
\* it finds a row
RegisterSelect(w, ip, email, password) ==
    /\ reg[w].pc = "idle"
    /\ UNCHANGED <<outsideRegister, users, tokens>>
    /\ IF UsersByEmail(users, email) /= {}
       THEN /\ reg' = [reg EXCEPT ![w] = [pc |-> "done", ip |-> ip, email |-> email,
                                           password |-> password,
                                           response |-> EmailAlreadyRegistered]]
            /\ ObserveAccount("register", ip, email, password, [kind |-> "none"],
                              EmailAlreadyRegistered)
       ELSE /\ reg' = [reg EXCEPT ![w] = [pc |-> "checked", ip |-> ip, email |-> email,
                                           password |-> password,
                                           response |-> NoRegister.response]]
            /\ UNCHANGED acctLast

\* register from db.add to the response: the INSERT of db.commit() fails on
\* the unique index of user.email when a row with the email has been
\* committed meanwhile; register catches nothing, so the IntegrityError
\* reaches general_exception_handler.
RegisterCommit(w) ==
    /\ reg[w].pc = "checked"
    /\ UNCHANGED outsideRegister
    /\ IF UsersByEmail(users, reg[w].email) /= {}
       THEN /\ UNCHANGED <<users, tokens>>
            /\ reg' = [reg EXCEPT ![w].pc = "done", ![w].response = InternalServerError]
            /\ ObserveAccount("register", reg[w].ip, reg[w].email, reg[w].password,
                              [kind |-> "none"], InternalServerError)
       ELSE \E new_id \in UserIds :
              LET access_token == CreateAccessTokenValue(new_id, NoDelta, now)
              IN  /\ users[new_id].state = "unused"
                  /\ users' = [users EXCEPT ![new_id] = UserRow(reg[w].email, reg[w].password)]
                  /\ Issue("create_access_token", access_token, ACCESS_TTL_SECONDS)
                  /\ reg' = [reg EXCEPT ![w].pc = "done", ![w].response = TokenResponse(201)]
                  /\ ObserveAccount("register", reg[w].ip, reg[w].email, reg[w].password,
                                    access_token, TokenResponse(201))

\* the response has gone to the client; the worker takes the next request
RegisterDone(w) ==
    /\ reg[w].pc = "done"
    /\ reg' = [reg EXCEPT ![w] = NoRegister]
    /\ UNCHANGED <<outsideRegister, users, tokens, acctLast>>

InitApp == InitResolver /\ InitTodos /\ InitAccounts /\ InitHashers

(***************************************************************************)
(* Spec: the rate limiter called directly, with any arguments              *)
(***************************************************************************)
DirectKeys == {RateKey("login", ip) : ip \in ClientIPs}
                \cup {RateKey("register", ip) : ip \in ClientIPs}

AttemptArgs == {1, REGISTER_MAX_ATTEMPTS}

WindowArgs == {LOGIN_WINDOW_SECONDS, REGISTER_WINDOW_SECONDS}

Init ==
    InitClock /\ InitLimiter /\ InitThreads /\ InitRace /\ InitConfig /\ InitTokens /\ InitApp

Next ==
    \/ Tick
    \/ \E k \in DirectKeys, m \in AttemptArgs, w \in WindowArgs : CheckRateLimit(k, m, w)
    \/ \E k \in DirectKeys : GetRetryAfter(k)
    \/ \E k \in DirectKeys : Reset(k)
    \/ \E w \in WindowArgs : CleanupExpired(w)

Spec == Init /\ [][Next]_vars

(***************************************************************************)
(* SpecPolicy: every key checked only through its pre-configured policy,   *)
(* with get_retry_after and the default cleanup sweep in between           *)
(***************************************************************************)
NextPolicy ==
    \/ Tick
    \/ \E ip \in ClientIPs : LoginRateLimit(ip)
    \/ \E ip \in ClientIPs : RegisterRateLimit(ip)
    \/ \E ip \in ClientIPs : PasswordResetRateLimit(ip)
    \/ \E ip \in ClientIPs : EmailVerificationRateLimit(ip)
    \/ \E k \in Keys : GetRetryAfter(k)
    \/ CleanupExpiredDefault

SpecPolicy == Init /\ [][NextPolicy]_vars

(***************************************************************************)
(* SpecSweep: keys checked through their policies, with cleanup_expired    *)
(* called with the windows of the policies in between                      *)
(***************************************************************************)
NextSweep ==
    \/ Tick
    \/ \E ip \in ClientIPs : LoginRateLimit(ip)
    \/ \E ip \in ClientIPs : RegisterRateLimit(ip)
    \/ \E w \in WindowArgs : CleanupExpired(w)

SpecSweep == Init /\ [][NextSweep]_vars

(***************************************************************************)
(* SpecShared: one limiter serving two actions and two client IPs          *)
(***************************************************************************)
\* request.client.host of a second client
OtherClientIP == "10.0.0.2"

SharedKeys ==
    DirectKeys \cup {RateKey("login", OtherClientIP)}

\* The instants of the calls: the start, and the first instant at which an
\* attempt made at the start has left a login window.
SharedInstants == {0, Ticks(LOGIN_WINDOW_SECONDS) + 1}

SharedTick == Advance(SharedInstants)

NextShared ==
    \/ SharedTick
    \/ \E k \in SharedKeys, m \in AttemptArgs : CheckRateLimit(k, m, LOGIN_WINDOW_SECONDS)
    \/ \E ip \in ClientIPs : RegisterRateLimit(ip)
    \/ \E k \in SharedKeys : GetRetryAfter(k)
    \/ \E k \in SharedKeys : Reset(k)

SpecShared == Init /\ [][NextShared]_vars

(***************************************************************************)
(* SpecThreads: check_rate_limit called from several threads, one          *)
(* statement of its body at a time                                         *)
(***************************************************************************)
\* The first statement inside `with self.lock:`. check_rate_limit is followed
\* statement by statement; the other operations run their body in one step.
FirstInside(op) == IF op = "check_rate_limit" THEN "read_time" ELSE "locked"

\* Mutant: the body is entered without waiting for the lock.
AcquireWithoutWaiting(t) ==
    /\ th[t].pc = "acquire"
    /\ lock' = t
    /\ th' = [th EXCEPT ![t].pc = FirstInside(th[t].op)]
    /\ UNCHANGED <<now, limiterVars, outsideThreads>>

\* a thread enters check_rate_limit(key, max_attempts, window_seconds)
ThreadCall(t, ip, key_prefix) ==
    /\ th[t].pc = "idle"
    /\ calls < MaxCalls
    /\ Cardinality(DOMAIN storage \cup {RateKey(key_prefix, ip)}) <= MaxKeys
    /\ calls' = calls + 1
    /\ th' = [th EXCEPT ![t] =
                [pc |-> "acquire", op |-> "check_rate_limit",
                 key |-> RateKey(key_prefix, ip),
                 max_attempts |-> PolicyMaxAttempts(key_prefix),
                 window_seconds |-> PolicyWindowSeconds(key_prefix),
                 current_time |-> 0]]
    /\ UNCHANGED <<now, storage, admitted, rlLast, lock, outsideThreads>>

\* with self.lock:
Acquire(t) ==
    /\ th[t].pc = "acquire"
    /\ lock = Unlocked
    /\ lock' = t
    /\ th' = [th EXCEPT ![t].pc = FirstInside(th[t].op)]
    /\ UNCHANGED <<now, limiterVars, outsideThreads>>

\* current_time = time.time(); cutoff_time = current_time - window_seconds
ReadTime(t) ==
    /\ th[t].pc = "read_time"
    /\ th' = [th EXCEPT ![t].pc = "init_key", ![t].current_time = now]
    /\ UNCHANGED <<now, limiterVars, lock, outsideThreads>>

\* if key not in self.storage: self.storage[key] = []
InitKey(t) ==
    /\ th[t].pc = "init_key"
    /\ storage' = Put(storage, th[t].key, StoredList(storage, th[t].key))
    /\ th' = [th EXCEPT ![t].pc = "prune"]
    /\ UNCHANGED <<now, admitted, rlLast, calls, lock, outsideThreads>>

\* self.storage[key] = [timestamps newer than cutoff_time]
PruneKey(t) ==
    /\ th[t].pc = "prune"
    /\ storage' = Put(storage, th[t].key,
                      Unexpired(StoredList(storage, th[t].key),
                                th[t].current_time - Ticks(th[t].window_seconds)))
    /\ th' = [th EXCEPT ![t].pc = "compare"]
    /\ UNCHANGED <<now, admitted, rlLast, calls, lock, outsideThreads>>

\* if len(self.storage[key]) < max_attempts
Compare(t) ==
    /\ th[t].pc = "compare"
    /\ th' = [th EXCEPT ![t].pc =
                IF UnderLimit(Len(StoredList(storage, th[t].key)), th[t].max_attempts)
                THEN "append" ELSE "return_false"]
    /\ UNCHANGED <<now, limiterVars, lock, outsideThreads>>

\* self.storage[key].append(current_time)
AppendTime(t) ==
    /\ th[t].pc = "append"
    /\ storage' = Put(storage, th[t].key,
                      Append(StoredList(storage, th[t].key), th[t].current_time))
    /\ admitted' = StillInWindow(
                       [admitted EXCEPT ![th[t].key] = Append(@, th[t].current_time)],
                       now)
    /\ th' = [th EXCEPT ![t].pc = "return_true"]
    /\ UNCHANGED <<now, rlLast, calls, lock, outsideThreads>>

\* Mutant: the function returns without releasing the lock.
ReturnHoldingLock(t) ==
    /\ th[t].pc \in {"return_true", "return_false", "return_value"}
    /\ th' = [th EXCEPT ![t] = Idle]
    /\ UNCHANGED <<now, limiterVars, lock, outsideThreads>>

\* return True / return False / return <value>, leaving the with block
Return(t) ==
    /\ th[t].pc \in {"return_true", "return_false", "return_value"}
    /\ lock' = Unlocked
    /\ rlLast' = IF th[t].pc = "return_value" THEN rlLast
                 ELSE [op |-> "check_rate_limit", via |-> "thread", key |-> th[t].key,
                       max_attempts |-> th[t].max_attempts,
                       window_seconds |-> th[t].window_seconds,
                       at |-> th[t].current_time, had_key |-> TRUE, before |-> <<>>,
                       allowed |-> th[t].pc = "return_true", value |-> 0]
    /\ th' = [th EXCEPT ![t] = Idle]
    /\ UNCHANGED <<now, storage, admitted, calls, outsideThreads>>

LimiterOps == {"check_rate_limit", "get_retry_after", "reset", "cleanup_expired", "get_stats"}

\* a thread enters one of the limiter's operations; cleanup_expired and
\* get_stats take no key
ThreadEnter(t, op, ip, key_prefix) ==
    /\ th[t].pc = "idle"
    /\ calls < MaxCalls
    /\ calls' = calls + 1
    /\ th' = [th EXCEPT ![t] =
                [pc |-> "acquire", op |-> op,
                 key |-> IF op \in {"cleanup_expired", "get_stats"} THEN <<>>
                         ELSE RateKey(key_prefix, ip),
                 max_attempts |-> IF op = "check_rate_limit"
                                  THEN PolicyMaxAttempts(key_prefix) ELSE 0,
                 window_seconds |->
                     CASE op = "check_rate_limit" -> PolicyWindowSeconds(key_prefix)
                       [] op = "cleanup_expired" -> CLEANUP_DEFAULT_WINDOW_SECONDS
                       [] OTHER -> 0,
                 current_time |-> 0]]
    /\ UNCHANGED <<now, storage, admitted, rlLast, lock, outsideThreads>>

\* get_stats: {"total_keys": ..., "total_timestamps": ...}
RECURSIVE TotalTimestamps(_, _)
TotalTimestamps(st, ks) ==
    IF ks = {} THEN 0
    ELSE LET k == CHOOSE x \in ks : TRUE
         IN  Len(st[k]) + TotalTimestamps(st, ks \ {k})

Stats(st) ==
    [total_keys |-> Cardinality(DOMAIN st),
     total_timestamps |-> TotalTimestamps(st, DOMAIN st)]

\* the body of get_retry_after, reset, cleanup_expired or get_stats, run
\* while the thread holds the lock
RunLocked(t) ==
    /\ th[t].pc = "locked"
    /\ storage' =
          CASE th[t].op = "reset" -> ResetStorage(storage, th[t].key)
            [] th[t].op = "cleanup_expired" ->
                  CleanupStorage(storage, th[t].window_seconds, now)
            [] OTHER -> storage
    /\ rlLast' =
          Observe(th[t].op, "thread", th[t].key, 0, th[t].window_seconds, FALSE,
                  CASE th[t].op = "get_retry_after" -> RetryAfter(storage, th[t].key, now)
                    [] th[t].op = "cleanup_expired" ->
                          CleanupRemovedCount(storage, th[t].window_seconds, now)
                    [] th[t].op = "get_stats" -> Stats(storage)
                    [] OTHER -> 0)
    /\ th' = [th EXCEPT ![t].pc = "return_value", ![t].current_time = now]
    /\ UNCHANGED <<now, admitted, calls, lock, outsideThreads>>

NextThreads ==
    \/ Tick
    \/ \E t \in Threads, ip \in ClientIPs, p \in {"login", "register"} :
            ThreadCall(t, ip, p)
    \/ \E t \in Threads : Acquire(t)
    \/ \E t \in Threads : ReadTime(t)
    \/ \E t \in Threads : InitKey(t)
    \/ \E t \in Threads : PruneKey(t)
    \/ \E t \in Threads : Compare(t)
    \/ \E t \in Threads : AppendTime(t)
    \/ \E t \in Threads : Return(t)

SpecThreads == Init /\ [][NextThreads]_vars

(***************************************************************************)
(* SpecLock: threads call the five operations of one limiter; the          *)
(* scheduler lets every thread that can step do so, and a thread that      *)
(* finds the lock free again and again gets it                             *)
(***************************************************************************)
\* The steps of a thread that holds the lock.
StepInside(t) ==
    \/ ReadTime(t)
    \/ InitKey(t)
    \/ PruneKey(t)
    \/ Compare(t)
    \/ AppendTime(t)
    \/ RunLocked(t)
    \/ Return(t)

NextLock ==
    \/ \E t \in Threads, op \in LimiterOps, ip \in ClientIPs : ThreadEnter(t, op, ip, "register")
    \/ \E t \in Threads : Acquire(t)
    \/ \E t \in Threads : StepInside(t)

FairLock == \A t \in Threads : SF_vars(Acquire(t)) /\ WF_vars(StepInside(t))

SpecLock == Init /\ [][NextLock]_vars /\ FairLock

(***************************************************************************)
(* SpecWorkers: register requests served by several workers, step by step  *)
(***************************************************************************)
NextWorkers ==
    \/ \E w \in Workers, ip \in ClientIPs, e \in Emails : RegisterSelect(w, ip, e, "password-1")
    \/ \E w \in Workers : RegisterCommit(w)
    \/ \E w \in Workers : RegisterDone(w)

SpecWorkers == Init /\ [][NextWorkers]_vars

(***************************************************************************)
(* SpecSingleton: the first requests reach get_rate_limiter from several   *)
(* threads                                                                 *)
(***************************************************************************)
NextSingleton ==
    \/ \E t \in Threads : GetRateLimiter(t)
    \/ \E t \in Threads : TestInstance(t)
    \/ \E t \in Threads : Construct(t)
    \/ \E t \in Threads : AssignInstance(t)
    \/ \E t \in Threads : ReturnInstance(t)
    \/ \E t \in Threads, ip \in ClientIPs, p \in {"login", "register"} : UseInstance(t, ip, p)

SpecSingleton == Init /\ [][NextSingleton]_vars

(***************************************************************************)
(* SpecTokens: tokens minted and decoded as time passes, under any server  *)
(* time zone                                                               *)
(***************************************************************************)
InitAnyZone ==
    InitClock /\ InitLimiter /\ InitThreads /\ InitRace /\ InitAnyConfig /\ InitTokens /\ InitApp

NextTokens ==
    \/ TokenTick
    \/ \E d \in DeltaArgs : CreateAccessToken("u1", d)
    \/ \E d \in DeltaArgs : CreateRefreshToken("u1", d)
    \/ \E m \in tokens : DecodeAccessToken(m)
    \/ \E m \in tokens : DecodeRefreshToken(m)

SpecTokens == InitAnyZone /\ [][NextTokens]_vars

(***************************************************************************)
(* SpecMint: tokens are minted with no, a zero and a positive              *)
(* expires_delta and decoded as time passes, on a server in UTC            *)
(***************************************************************************)
\* expires_delta as callers pass it: None, timedelta(0), timedelta(minutes=15)
MintDeltas == DeltaArgs \cup {0}

NextMint ==
    \/ TokenTick
    \/ \E d \in MintDeltas : CreateAccessToken("u1", d)
    \/ \E d \in MintDeltas : CreateRefreshToken("u1", d)
    \/ \E m \in tokens : DecodeAccessToken(m)
    \/ \E m \in tokens : DecodeRefreshToken(m)

SpecMint == Init /\ [][NextMint]_vars

(***************************************************************************)
(* SpecData: tokens are minted from data that may carry type, exp and iat  *)
(* keys of the caller, under either configuration of the two secrets       *)
(***************************************************************************)
\* The instants of the calls: the start, and a later one at which every
\* token minted at the start is still inside its lifetime.
DataInstants == {0, Ticks(LOGIN_WINDOW_SECONDS)}

DataTick == Advance(DataInstants)

NextData ==
    \/ DataTick
    \/ \E data \in DataArgs, d \in DeltaArgs : CreateAccessTokenWith(data, d)
    \/ \E data \in DataArgs, d \in DeltaArgs : CreateRefreshTokenWith(data, d)
    \/ \E m \in tokens : DecodeAccessToken(m)
    \/ \E m \in tokens : DecodeRefreshToken(m)

SpecData == InitAnyZone /\ [][NextData]_vars

(***************************************************************************)
(* SpecSigned: tokens signed with one of the server's secrets by a holder  *)
(* of the secret, with any of the claims left out, are decoded as time     *)
(* passes                                                                  *)
(***************************************************************************)
\* The exp claims of the signed tokens: none, and the end of the access TTL
\* counted from time 0.
SignedExps == {NoExp, NumericDate(Ticks(ACCESS_TTL_SECONDS))}

\* jwt.encode(payload, key, algorithm=ALGORITHM) for the payloads with and
\* without sub, exp and type.
SignedTokens ==
    {Jwt(sub, exp, 0, type, key) :
        sub \in {"u1", Absent}, exp \in SignedExps,
        type \in {"access", "refresh", Absent}, key \in {secretKey, refreshSecret}}

\* The token as the decode functions are handed it.
Signed(token) == [by |-> "jwt.encode", token |-> token, minted_at |-> 0, ttl |-> 0]

NextSigned ==
    \/ TokenTick
    \/ \E token \in SignedTokens : DecodeAccessToken(Signed(token))
    \/ \E token \in SignedTokens : DecodeRefreshToken(Signed(token))

SpecSigned == InitAnyZone /\ [][NextSigned]_vars

(***************************************************************************)
(* SpecResolver: a registered user may be deleted, tokens are minted,      *)
(* and requests present them in the cookie and in the Authorization header *)
(***************************************************************************)
\* The state after the given users have registered at time 0, u1 as
\* a@example.com and u2 as b@example.com: each holds the token it was given.
InitRegistered(registered) ==
    /\ users = [u \in UserIds |->
                  IF u \in registered
                  THEN UserRow(IF u = "u1" THEN "a@example.com" ELSE "b@example.com",
                               "password-1")
                  ELSE NoRow("unused")]
    /\ authLast = NoRequest
    /\ tokens = {[by |-> "create_access_token",
                  token |-> CreateAccessTokenValue(u, NoDelta, 0),
                  minted_at |-> 0, ttl |-> Ticks(ACCESS_TTL_SECONDS)] : u \in registered}
    /\ tokLast = NoDecode

InitWithUsers(registered) ==
    /\ InitClock /\ InitLimiter /\ InitThreads /\ InitRace /\ InitConfig
    /\ InitRegistered(registered) /\ InitTodos /\ InitAccounts /\ InitHashers

\* What a request can carry in the cookie or in the header: nothing, the
\* empty string, a forged token, or a token the server minted.
Presentable ==
    {NoToken, EmptyToken, ForgedToken("u1")} \cup {m.token : m \in tokens}

NextResolver ==
    \/ ResolverTick
    \/ \E u \in UserIds : DeleteUser(u)
    \/ \E sub \in {"not-a-uuid", Absent} : CreateAccessToken(sub, NoDelta)
    \/ CreateRefreshToken("u1", NoDelta)
    \/ \E c \in Presentable, h \in Presentable : GetCurrentUser(c, h)
    \/ \E c \in Presentable, h \in Presentable : GetCurrentUserId(c, h)

SpecResolver == InitWithUsers({"u1"}) /\ [][NextResolver]_vars

(***************************************************************************)
(* SpecTodos: registered users create, list, read, update and delete todos *)
(***************************************************************************)
NextTodos ==
    \/ TodoTick
    \/ \E u \in UserIds : DeleteUser(u)
    \/ \E u \in UserIds, t \in Titles, p \in PriorityLevels : CreateTodo(u, t, FALSE, p)
    \/ \E u \in UserIds, p \in PriorityFilters : ListTodos(u, p)
    \/ \E u \in UserIds, i \in TodoIds : GetTodo(u, i)
    \/ \E u \in UserIds, i \in TodoIds, d \in TodoUpdates : UpdateTodo(u, i, d)
    \/ \E u \in UserIds, i \in TodoIds : DeleteTodo(u, i)

SpecTodos == InitWithUsers(UserIds) /\ [][NextTodos]_vars

(***************************************************************************)
(* SpecAccounts: clients register and log in as time passes; user rows are *)
(* deleted                                                                 *)
(***************************************************************************)
\* The instants at which account requests arrive: at the start, and one
\* tick before and at the end of the login window that starts then.
AccountInstants == {0, Ticks(LOGIN_WINDOW_SECONDS) - 1, Ticks(LOGIN_WINDOW_SECONDS)}

AccountTick == Advance(AccountInstants)

NextAccounts ==
    \/ AccountTick
    \/ \E ip \in ClientIPs, e \in Emails, p \in Passwords : Register(ip, e, p)
    \/ \E ip \in ClientIPs, e \in Emails, p \in Passwords : Login(ip, e, p)
    \/ \E u \in UserIds : DeleteUser(u)

SpecAccounts == Init /\ [][NextAccounts]_vars

(***************************************************************************)
(* SpecJourney: users register and log in, and call a protected endpoint   *)
(* with the token of the response, with another token they hold, or with   *)
(* none                                                                    *)
(***************************************************************************)
\* What the client of the last register or login can present: nothing, the
\* access_token of the response, or a token handed out earlier.
Held == {NoToken, acctLast.issued} \cup {m.token : m \in tokens}

\* The instants of the requests: the start, and the last instant at which
\* a token returned at the start is still accepted.
JourneyInstants == {0, Ticks(ACCESS_TTL_SECONDS)}

JourneyTick == Advance(JourneyInstants)

NextJourney ==
    \/ JourneyTick
    \/ \E ip \in ClientIPs, e \in Emails : Register(ip, e, "password-1")
    \/ \E ip \in ClientIPs, e \in Emails : Login(ip, e, "password-1")
    \/ \E u \in UserIds : DeleteUser(u)
    \/ \E token \in Held : GetCurrentUser(token, NoToken)
    \/ \E token \in Held : GetCurrentUser(NoToken, token)

SpecJourney == Init /\ [][NextJourney]_vars

(***************************************************************************)
(* SpecHashers: secrets are hashed and verified, under either kind of      *)
(* bcrypt library                                                          *)
(***************************************************************************)
InitAnyBcrypt ==
    /\ InitClock /\ InitLimiter /\ InitThreads /\ InitRace /\ InitTokens /\ InitApp
    /\ tzOffset = 0
    /\ secretKey = "SECRET_KEY"
    /\ refreshSecret = "REFRESH_TOKEN_SECRET"
    /\ bcryptStrict \in BOOLEAN

NextHashers ==
    \/ \E h \in Hashers, n \in SecretLengths :
          HashThenVerify(h, SecretOfLength(n), SecretOfLength(n))
    \/ \E h \in Hashers, n \in SecretLengths :
          \E i \in MutatedPositions(SecretOfLength(n)), b \in MutatedBits :
              HashThenVerify(h, SecretOfLength(n), Mutated(SecretOfLength(n), i, b))
    \/ \E h \in Hashers, n \in SecretLengths, d \in MalformedDigests :
          VerifyMalformed(h, SecretOfLength(n), d)

SpecHashers == InitAnyBcrypt /\ [][NextHashers]_vars

(***************************************************************************)
(* Claims about the rate limiter                                           *)
(***************************************************************************)
NewerThan(ts, bound) ==
    LET Newer(t) == bound < t
    IN  SelectSeq(ts, Newer)

\* C1: check_rate_limit(key, max_attempts, window_seconds) called at time
\* `at` returns true exactly when fewer than max_attempts stored timestamps of
\* the key are strictly newer than at - window_seconds; afterwards the key's
\* list is those retained timestamps, followed by `at` only when it returned
\* true.
C1_CheckRateLimitContract ==
    rlLast.op = "check_rate_limit" =>
        LET retained == NewerThan(rlLast.before,
                                  rlLast.at - Ticks(rlLast.window_seconds))
        IN  /\ rlLast.allowed <=> (Len(retained) < rlLast.max_attempts)
            /\ rlLast.key \in DOMAIN storage
            /\ storage[rlLast.key] = IF rlLast.allowed
                                     THEN Append(retained, rlLast.at)
                                     ELSE retained

\* A call that dropped expired timestamps and still refused the request.
C1_Witness ==
    /\ rlLast.op = "check_rate_limit"
    /\ ~rlLast.allowed
    /\ Len(storage[rlLast.key]) < Len(rlLast.before)
    /\ Len(storage[rlLast.key]) >= rlLast.max_attempts

\* C2: for a key checked only under its policy (m, w), whatever
\* get_retry_after and default cleanup_expired() calls come in between, the
\* admissions of the key inside any half-open interval of length w number at
\* most m.
C2_SlidingWindowBound ==
    \A k \in Keys : Len(admitted[k]) <= PolicyMaxAttempts(k[1])

\* The login policy filled to its limit, and the next request refused.
C2_Witness ==
    /\ rlLast.op = "check_rate_limit"
    /\ rlLast.via = "login"
    /\ ~rlLast.allowed
    /\ Len(admitted[rlLast.key]) = LOGIN_MAX_ATTEMPTS

InsideLock == {"read_time", "init_key", "prune", "compare", "append",
               "return_true", "return_false"}

\* C3: concurrent check_rate_limit calls run their read-prune-compare-append
\* sequence one at a time under the lock, and no interleaving admits more
\* than max_attempts attempts of a key inside one window.
C3_ConcurrentChecksSerialize ==
    /\ \A t1, t2 \in Threads :
           th[t1].pc \in InsideLock /\ th[t2].pc \in InsideLock => t1 = t2
    /\ \A t \in Threads : th[t].pc \in InsideLock => lock = t
    /\ \A k \in Keys :
           /\ Len(admitted[k]) <= PolicyMaxAttempts(k[1])
           /\ Len(StoredList(storage, k)) <= PolicyMaxAttempts(k[1])

\* Two threads in check_rate_limit on the same key with one slot left: one
\* is about to take it, the other waits for the lock.
C3_Witness ==
    \E t1, t2 \in Threads :
        /\ th[t1].pc = "append"
        /\ th[t2].pc = "acquire"
        /\ th[t1].key = th[t2].key
        /\ Len(StoredList(storage, th[t1].key)) = th[t1].max_attempts - 1

(***************************************************************************)
(* Claims about tokens                                                     *)
(***************************************************************************)
Accepted(result) == result.status = 200

\* C4: an access token minted by create_access_token at time t0 with TTL d
\* is accepted by decode_access_token at every time now <= t0 + d and
\* rejected at every time now > t0 + d, whatever the server's local-time
\* offset from UTC.
C4_AccessTokenLifetime ==
    (tokLast.fn = "decode_access_token" /\ tokLast.minted.by = "create_access_token")
        => (Accepted(tokLast.result)
              <=> tokLast.at <= tokLast.minted.minted_at + tokLast.minted.ttl)

\* A decode function of one kind applied to a token minted as the other kind.
CrossDecoded ==
    \/ tokLast.fn = "decode_access_token" /\ tokLast.minted.by = "create_refresh_token"
    \/ tokLast.fn = "decode_refresh_token" /\ tokLast.minted.by = "create_access_token"

\* What the other decode function answers to a token of the kind it does not
\* accept.
OtherCrossResults ==
    IF tokLast.fn = "decode_access_token"
    THEN {DecodeRefreshTokenValue(m.token, now) :
            m \in {x \in tokens : x.by = "create_access_token"}}
    ELSE {DecodeAccessTokenValue(m.token, now) :
            m \in {x \in tokens : x.by = "create_refresh_token"}}

\* C5: decode_access_token rejects every refresh token, decode_refresh_token
\* rejects every access token, and the two rejections are the same response:
\* same status, same detail, same headers.
C5_CrossDecodeUniform ==
    CrossDecoded =>
        /\ ~Accepted(tokLast.result)
        /\ \A other \in OtherCrossResults : other = tokLast.result

(***************************************************************************)
(* Claims about the resolution of a request to a principal                 *)
(***************************************************************************)
\* The token of a request under the cookie-first rule: the cookie's when the
\* cookie is there and not empty, the header's otherwise.
Presented(req) == IF req.cookie.kind = "jwt" THEN req.cookie ELSE req.header

\* A token signed with SECRET_KEY, of type access, not past its expiry at
\* the time of the request, whose subject is a UUID.
GoodAccessToken(token, at) ==
    /\ token.kind = "jwt"
    /\ token.key = secretKey
    /\ token.type = "access"
    /\ at <= Ticks(token.exp)
    /\ token.sub \in UserIds

UniformUnauthenticated ==
    [status |-> 401, detail |-> "Could not validate credentials",
     www_authenticate |-> "Bearer", principal |-> Absent]

ValidFor(dep, token, store, at) ==
    /\ GoodAccessToken(token, at)
    /\ dep = "get_current_user" => store[token.sub].state = "active"

\* C7: both dependencies decide on the cookie's token whenever the cookie is
\* there and not empty, and on the header's token only otherwise: the
\* request is resolved exactly when that one token is valid, and then to
\* that token's subject.
C7_CookiePrecedence ==
    authLast.dep \in {"get_current_user", "get_current_user_id"} =>
        LET token == Presented(authLast)
        IN  /\ authLast.result.status = 200
                <=> ValidFor(authLast.dep, token, authLast.store, authLast.at)
            /\ authLast.result.status = 200 => authLast.result.principal = token.sub
            /\ authLast.result.status \in {200, 401}

\* A request with an invalid cookie token and a valid header token has been
\* refused.
C7_Witness ==
    /\ authLast.dep \in {"get_current_user", "get_current_user_id"}
    /\ authLast.cookie.kind = "jwt"
    /\ ~ValidFor(authLast.dep, authLast.cookie, authLast.store, authLast.at)
    /\ ValidFor(authLast.dep, authLast.header, authLast.store, authLast.at)
    /\ authLast.result.status = 401

\* C8: a request with a validly signed, unexpired access token whose
\* subject has no row in the users table is Unauthenticated, whichever of
\* get_current_user and get_current_user_id resolves it.
C8_MissingPrincipalUnauthenticated ==
    authLast.dep \in {"get_current_user", "get_current_user_id"} =>
        LET token == Presented(authLast)
        IN  (/\ GoodAccessToken(token, authLast.at)
             /\ authLast.store[token.sub].state /= "active")
                => authLast.result.status = 401

(***************************************************************************)
(* Claims about todos                                                      *)
(***************************************************************************)
\* The rows of a table not owned by the principal.
OwnedByOthers(table, principal) ==
    {i \in DOMAIN table : table[i].user_id /= principal}

\* C9: list_todos and get_todo hand a principal only rows whose user_id is
\* the principal's, and update_todo and delete_todo leave every row owned
\* by another principal in the table, unchanged.
C9_OwnershipIsolation ==
    /\ todoLast.op \in {"list_todos", "get_todo"} =>
          \A n \in DOMAIN todoLast.response.body :
              todoLast.response.body[n].user_id = todoLast.principal
    /\ todoLast.op \in {"update_todo", "delete_todo"} =>
          \A i \in OwnedByOthers(todoLast.before, todoLast.principal) :
              i \in DOMAIN todoLast.after /\ todoLast.after[i] = todoLast.before[i]

\* A principal has listed its todos while another principal's todo was in
\* the table, and got a row.
C9_Witness ==
    /\ todoLast.op = "list_todos"
    /\ OwnedByOthers(todoLast.before, todoLast.principal) /= {}
    /\ todoLast.response.body /= <<>>

\* C10: get_todo, update_todo and delete_todo answer 404 'Todo not found',
\* the same response, when the id has no row and when its row is owned by
\* another principal, and leave the table as it was.
C10_NotFoundForForeignAndAbsent ==
    (/\ todoLast.op \in {"get_todo", "update_todo", "delete_todo"}
     /\ \/ todoLast.todo_id \notin DOMAIN todoLast.before
        \/ todoLast.todo_id \in OwnedByOthers(todoLast.before, todoLast.principal))
        => /\ todoLast.response = [status |-> 404, detail |-> "Todo not found",
                                   body |-> <<>>]
           /\ todoLast.after = todoLast.before

\* A principal has asked to delete another principal's todo.
C10_Witness ==
    /\ todoLast.op = "delete_todo"
    /\ todoLast.todo_id \in OwnedByOthers(todoLast.before, todoLast.principal)
    /\ todoLast.response.status = 404

(***************************************************************************)
(* Claims about register and login                                         *)
(***************************************************************************)
\* The rows of the users table stored under the email.
RowsWithEmail(user_table, email) ==
    {u \in DOMAIN user_table :
        user_table[u].state = "active" /\ user_table[u].email = email}

LoginFailed401 ==
    [status |-> 401, detail |-> "Invalid credentials", www_authenticate |-> "Bearer"]

\* The last request was a login whose email has no row, or whose password
\* is not the one the row of the email was registered with.
BadLogin ==
    /\ acctLast.op = "login"
    /\ \A u \in RowsWithEmail(acctLast.before.users, acctLast.email) :
          acctLast.before.users[u].hashed_password /= <<"bcrypt", acctLast.password>>

C12_LoginCookiesAndSession ==
    (acctLast.op = "login" /\ acctLast.response.status = 200) =>
        LET created == acctLast.after.sessions \ acctLast.before.sessions
        IN  /\ DOMAIN acctLast.cookies = {"access_token", "refresh_token"}
            /\ Cardinality(created) = 1
            /\ \A row \in created :
                  /\ row.user_id = acctLast.issued.sub
                  /\ row.refresh_token_hash
                        = <<"bcrypt", acctLast.cookies["refresh_token"]>>

\* The login requests of the client IP whose credential check ran inside
\* the login window that ends at time t.
ServedInWindow(ip, t) ==
    {n \in DOMAIN served[ip] : t - served[ip][n] < Ticks(LOGIN_WINDOW_SECONDS)}

\* C13: login is behind the login policy: of the login requests of one
\* client IP, at most five inside any 15 minutes get as far as the
\* credential lookup; the others are answered 429 before it.
C13_LoginRateLimited ==
    acctLast.op = "login" =>
        Cardinality(ServedInWindow(acctLast.ip, acctLast.at)) <= LOGIN_MAX_ATTEMPTS

\* C14: register with an email that a stored user has answers 'Email
\* already registered', stores no user and hands out no token; and no two
\* stored users ever have the same email.
C14_RegisterConflict ==
    /\ (/\ acctLast.op = "register"
        /\ RowsWithEmail(acctLast.before.users, acctLast.email) /= {})
          => /\ acctLast.response.status = 400
             /\ acctLast.response.detail = "Email already registered"
             /\ acctLast.issued.kind = "none"
             /\ acctLast.after = acctLast.before
    /\ \A e \in Emails : Cardinality(RowsWithEmail(users, e)) <= 1

\* A register request for an email that was already registered has been
\* refused while an unused user id was still to be had.
C14_Witness ==
    /\ acctLast.op = "register"
    /\ RowsWithEmail(acctLast.before.users, acctLast.email) /= {}
    /\ \E u \in UserIds : acctLast.before.users[u].state = "unused"
    /\ acctLast.response.status = 400

(***************************************************************************)
(* Claims about the retry-after hint, reset and the demo sequence          *)
(***************************************************************************)
\* The last call was a refusal by the rate-limit dependency, and this step
\* is the next call: the same dependency, for the same key, made exactly
\* when the hint of the refusal has run out.
RetriesWhenHinted ==
    /\ rlLast.op = "check_rate_limit"
    /\ rlLast.via \in KeyPrefixes
    /\ ~rlLast.allowed
    /\ calls' = calls + 1
    /\ rlLast'.op = "check_rate_limit"
    /\ rlLast'.via = rlLast.via
    /\ rlLast'.key = rlLast.key
    /\ rlLast'.at = rlLast.at + Ticks(rlLast.value)

\* C15: under each default policy, a request refused at time t with the
\* hint r = get_retry_after(k) is admitted when it is made again at t + r
\* with no call on k in between.
C15_RetryAfterSufficient == [][RetriesWhenHinted => rlLast'.allowed]_vars

\* C16: get_retry_after(key) is 0 for a key that is absent or has no
\* recorded attempt, and otherwise the whole seconds of
\* max(0, oldest timestamp + W - now), W being the window of the policy
\* under which the key's attempts were recorded; it is never negative.
C16_RetryAfterValue ==
    rlLast.op = "get_retry_after" =>
        LET W == PolicyWindowSeconds(rlLast.key[1])
            remaining == SeqMin(rlLast.before) + Ticks(W) - rlLast.at
        IN  /\ rlLast.value >= 0
            /\ rlLast.before = <<>> => rlLast.value = 0
            /\ rlLast.before /= <<>> =>
                  rlLast.value = Max(0, remaining \div TicksPerSecond)

\* This step is a call of the rate limiter's operation op.
CallOf(op) == calls' = calls + 1 /\ rlLast'.op = op

\* The last call was a reset or a get_retry_after that left its key
\* without recorded attempts, and this step is a call on the same key.
FollowsCleanKey ==
    /\ \/ rlLast.op = "reset"
       \/ rlLast.op = "get_retry_after" /\ rlLast.before = <<>>
    /\ rlLast'.key = rlLast.key

\* C17: reset(key) leaves the key without recorded attempts, whatever was
\* recorded: a get_retry_after(key) that follows returns 0 and a
\* check_rate_limit(key, m, w) with m >= 1 that follows returns true; reset
\* of an absent key changes nothing, and so does a second reset.
C17_ResetForgives ==
    [][/\ CallOf("reset") =>
            /\ StoredList(storage', rlLast'.key) = <<>>
            /\ ~rlLast'.had_key => storage' = storage
            /\ FollowsCleanKey => storage' = storage
       /\ (CallOf("get_retry_after") /\ FollowsCleanKey) => rlLast'.value = 0
       /\ (CallOf("check_rate_limit") /\ FollowsCleanKey /\ rlLast'.max_attempts >= 1)
            => rlLast'.allowed]_vars

\* reset has cleared a key that had reached the limit of its policy.
C17_Witness ==
    /\ rlLast.op = "reset"
    /\ Len(rlLast.before) >= REGISTER_MAX_ATTEMPTS
    /\ StoredList(storage, rlLast.key) = <<>>

\* The last call was a check_rate_limit in a run of checks made in
\* immediate succession on a key that had no recorded attempts: every
\* attempt recorded for the key was recorded at this same instant.
InImmediateSuccession ==
    /\ rlLast.op = "check_rate_limit"
    /\ \A i \in DOMAIN rlLast.before : rlLast.before[i] = rlLast.at

\* The last call was a check_rate_limit made more than window_seconds
\* after the last recorded attempt of its key.
AfterWaitingPastWindow ==
    /\ rlLast.op = "check_rate_limit"
    /\ rlLast.max_attempts >= 1
    /\ rlLast.before /= <<>>
    /\ rlLast.at - rlLast.before[Len(rlLast.before)] > Ticks(rlLast.window_seconds)

\* C18: of check_rate_limit(key, m, w) calls made in immediate succession
\* on a key without recorded attempts, the first m return true, each
\* recording its attempt, and the next returns false, recording nothing; a
\* call made more than w seconds after the last recorded attempt returns
\* true again.
C18_ImmediateSuccession ==
    /\ InImmediateSuccession =>
          /\ rlLast.allowed <=> Len(rlLast.before) < rlLast.max_attempts
          /\ StoredList(storage, rlLast.key)
                = IF rlLast.allowed THEN Append(rlLast.before, rlLast.at)
                  ELSE rlLast.before
    /\ AfterWaitingPastWindow => rlLast.allowed

\* A key that had reached three attempts has been checked again after more
\* than its window, and was admitted.
C18_Witness ==
    /\ AfterWaitingPastWindow
    /\ rlLast.max_attempts = REGISTER_MAX_ATTEMPTS
    /\ Len(rlLast.before) = REGISTER_MAX_ATTEMPTS
    /\ rlLast.allowed

(***************************************************************************)
(* Claims about the hashers                                                *)
(***************************************************************************)
\* C19: for each hasher pair and secrets of every length, also over 72
\* bytes: the secret verifies against its own digest, and a secret that
\* differs from it in one bit does not.
C19_HashRoundTrip ==
    hashLast.op = "hash_then_verify" =>
        /\ hashLast.candidate = hashLast.secret => hashLast.result = "True"
        /\ hashLast.candidate /= hashLast.secret => hashLast.result = "False"

\* C20: against a stored digest that is no well-formed bcrypt hash each of
\* the three verify functions returns false; none raises.
C20_MalformedDigestIsFalse ==
    hashLast.op = "verify_malformed" => hashLast.result = "False"

(***************************************************************************)
(* Claims about signed tokens that lack a claim                            *)
(***************************************************************************)
LacksRequiredClaim(token) ==
    \/ token.sub = Absent
    \/ token.exp = NoExp
    \/ token.type = Absent

SignedForDecoder ==
    \/ tokLast.fn = "decode_access_token" /\ tokLast.minted.token.key = secretKey
    \/ tokLast.fn = "decode_refresh_token" /\ tokLast.minted.token.key = refreshSecret

\* C21: a correctly signed token whose payload lacks sub, exp or type is
\* rejected by decode_access_token and by decode_refresh_token; a token
\* without exp is never accepted.
C21_MissingClaimRejected ==
    (SignedForDecoder /\ LacksRequiredClaim(tokLast.minted.token))
        => ~Accepted(tokLast.result)

(***************************************************************************)
(* Claims about register, login and the protected endpoints together       *)
(***************************************************************************)
\* The last register or login succeeded, and the request that followed it
\* presented the access token of its response while the token had not
\* expired.
PresentedReturnedToken ==
    /\ acctLast.op \in {"register", "login"}
    /\ acctLast.issued.kind = "jwt"
    /\ authLast.dep = "get_current_user"
    /\ Presented(authLast) = acctLast.issued
    /\ acctLast.at <= authLast.at
    /\ authLast.at <= acctLast.at + Ticks(ACCESS_TTL_SECONDS)

\* The users registered under the email of the last register or login when
\* it was answered, and still registered at the request.
StillRegistered ==
    {u \in UsersByEmail(acctLast.after.users, acctLast.email) :
        authLast.store[u] = acctLast.after.users[u]}

DecoderOf(by) ==
    IF by = "create_access_token" THEN "decode_access_token" ELSE "decode_refresh_token"

\* C24: the exp of every minted token is the mint time plus the
\* expires_delta supplied, also for a zero expires_delta, and the mint time
\* plus the default TTL only without one; a token of zero TTL is rejected
\* at every time after its mint.
C24_ExpiresDeltaHonoured ==
    /\ \A m \in tokens : m.token.exp = NumericDate(m.minted_at + m.ttl)
    /\ (/\ tokLast.fn /= "none"
        /\ tokLast.fn = DecoderOf(tokLast.minted.by)
        /\ tokLast.minted.ttl = 0
        /\ tokLast.at > tokLast.minted.minted_at)
          => ~Accepted(tokLast.result)

(***************************************************************************)
(* Claims about the cleanup sweep                                          *)
(***************************************************************************)
\* The timestamps of the key that a check under the key's own policy, made
\* at time t, would still count.
CountedByOwnPolicy(st, key, t) ==
    Unexpired(StoredList(st, key), t - Ticks(PolicyWindowSeconds(key[1])))

\* C25: cleanup_expired, with any argument, drops only timestamps the next
\* check on their key would have pruned anyway, removes a key only when
\* none of its timestamps is inside the key's own policy window - so that
\* no later check_rate_limit is answered differently - and returns the
\* number of keys it removed.
C25_CleanupChangesNoCheck ==
    [][CallOf("cleanup_expired") =>
          /\ \A k \in Keys :
                CountedByOwnPolicy(storage', k, now) = CountedByOwnPolicy(storage, k, now)
          /\ rlLast'.value = Cardinality(DOMAIN storage \ DOMAIN storage')]_vars

(***************************************************************************)
(* Claims about the keys of the limiter                                    *)
(***************************************************************************)
\* C26: check_rate_limit, get_retry_after and reset on a key leave the
\* timestamps stored under every other key as they were: keys of another
\* action or another client IP are neither added, removed nor changed.
C26_OtherKeysUntouched ==
    [][(CallOf("check_rate_limit") \/ CallOf("get_retry_after") \/ CallOf("reset")) =>
          \A k \in (DOMAIN storage \cup DOMAIN storage') \ {rlLast'.key} :
              /\ k \in DOMAIN storage
              /\ k \in DOMAIN storage'
              /\ storage'[k] = storage[k]]_vars

\* A key that held attempts has been reset while the same client's key of
\* another action and another client's key of the same action held
\* attempts.
C26_Witness ==
    /\ rlLast.op = "reset"
    /\ rlLast.before /= <<>>
    /\ \E k \in DOMAIN storage :
          k[1] /= rlLast.key[1] /\ k[2] = rlLast.key[2] /\ storage[k] /= <<>>
    /\ \E k \in DOMAIN storage :
          k[1] = rlLast.key[1] /\ k[2] /= rlLast.key[2] /\ storage[k] /= <<>>

(***************************************************************************)
(* Claims about the shared limiter instance                                *)
(***************************************************************************)
\* C27: get_rate_limiter hands every caller the same instance, also when
\* the first calls run concurrently in several threads, and every attempt
\* is recorded in that one instance.
C27_OneSharedInstance ==
    /\ \A t1 \in Threads, t2 \in Threads :
          (gt[t1].got /= NoInstance /\ gt[t2].got /= NoInstance)
              => gt[t1].got = gt[t2].got
    /\ \A i \in DOMAIN limiters : limiters[i] /= <<>> => i = instance

(***************************************************************************)
(* Claims about the lock                                                   *)
(***************************************************************************)
\* The thread is inside a `with self.lock:` block.
HoldsLock(t) == th[t].pc \notin {"idle", "acquire"}

\* C28: each of check_rate_limit, get_retry_after, reset, cleanup_expired
\* and get_stats runs with the one lock held and has released it when it
\* returns, and under a fair scheduler every call, with any callers beside
\* it, returns.
C28_EveryCallReturns ==
    /\ [](\A t \in Threads : HoldsLock(t) <=> lock = t)
    /\ \A t \in Threads : (th[t].pc /= "idle") ~> (th[t].pc = "idle")

\* One thread is inside get_stats while another waits for the lock to
\* reset a key that holds attempts.
C28_Witness ==
    \E t1, t2 \in Threads :
        /\ th[t1].op = "get_stats" /\ th[t1].pc = "return_value"
        /\ th[t2].op = "reset" /\ th[t2].pc = "acquire"
        /\ StoredList(storage, th[t2].key) /= <<>>

(***************************************************************************)
(* Claims about the claims of minted tokens                                *)
(***************************************************************************)
TypeOf(by) == IF by = "create_access_token" THEN "access" ELSE "refresh"

\* C29: a token of create_access_token carries type 'access', a token of
\* create_refresh_token type 'refresh', and both the iat and exp set by
\* the mint function, whatever 'type', 'exp' and 'iat' the caller's data
\* holds; so each decode function rejects a token of the other kind, also
\* when the two secrets are the same.
C29_MintSetsTypeAndTimes ==
    /\ \A m \in tokens :
          /\ m.token.type = TypeOf(m.by)
          /\ m.token.iat = NumericDate(m.minted_at)
          /\ m.token.exp = NumericDate(m.minted_at + m.ttl)
    /\ CrossDecoded => ~Accepted(tokLast.result)

\* With both secrets the same, decode_access_token has rejected a token
\* that create_refresh_token minted from data saying type 'access'.
C29_Witness ==
    /\ refreshSecret = secretKey
    /\ tokLast.fn = "decode_access_token"
    /\ tokLast.minted.by = "create_refresh_token"
    /\ "type" \in DOMAIN tokLast.minted.data
    /\ tokLast.minted.data.type = "access"
    /\ tokLast.minted.token.exp /= tokLast.minted.data.exp
    /\ tokLast.at > tokLast.minted.minted_at
    /\ tokLast.at <= tokLast.minted.minted_at + tokLast.minted.ttl
    /\ ~Accepted(tokLast.result)

(***************************************************************************)
(* Claims about concurrent register requests                               *)
(***************************************************************************)
\* Two workers have both finished a register request for the same email
\* that both had found unregistered.
BothPassedCheck(w1, w2) ==
    /\ w1 /= w2
    /\ reg[w1].pc = "done" /\ reg[w2].pc = "done"
    /\ reg[w1].email = reg[w2].email
    /\ reg[w1].response /= EmailAlreadyRegistered
    /\ reg[w2].response /= EmailAlreadyRegistered

\* C30: of two register requests for one unregistered email that both pass
\* the existence check before either commits, one creates the user (and
\* only one row exists) and the other is answered 400 'Email already
\* registered', not the generic internal-failure response.
C30_LoserGetsConflict ==
    \A w1, w2 \in Workers :
        BothPassedCheck(w1, w2) =>
            /\ Cardinality(UsersByEmail(users, reg[w1].email)) = 1
            /\ {reg[w1].response.status, reg[w2].response.status} = {201, 400}
            /\ reg[w1].response /= InternalServerError
            /\ reg[w2].response /= InternalServerError

====
